---------------------------- MODULE Spec2Model ----------------------------
(***************************************************************************)
(* A model of the Sindri cloud prover adapter (src/src/prover.rs): the     *)
(* three ProvingService operations get_vks, prove and query_task of        *)
(* CloudProver, the HTTP call they share (request_with_token, sent through *)
(* the retry middleware configured in CloudProver::new), route             *)
(* construction (build_url) and the verification-key re-encoding           *)
(* (reformat_vk).                                                          *)
(*                                                                         *)
(* The backend is the environment: every send attempt ends in an outcome   *)
(* the backend or the network chooses (a status code, a connect error, a   *)
(* timeout, ...), and every body that is read is one the backend chooses.  *)
(*                                                                         *)
(* Option<T> is modelled as a sequence: None is <<>> and Some(x) is <<x>>. *)
(* Result<T, E> is a record [ok |-> TRUE, val |-> x] or                    *)
(* [ok |-> FALSE, err |-> message].  Strings that the code inspects        *)
(* character by character (the keys) are sequences of one-character        *)
(* strings.  Time is counted in ticks of half a second, so that            *)
(* retry_wait_duration / 2 is a whole number of ticks.                     *)
(***************************************************************************)
EXTENDS Integers, Sequences, FiniteSets, TLC

VARIABLES adapter, frame

vars == <<adapter, frame>>

None == <<>>

Some(x) == <<x>>

Ok(x) == [ok |-> TRUE, val |-> x]

Err(e) == [ok |-> FALSE, err |-> e]

\* A panic (unreachable!, unwrap, expect): no value and no error is returned.
Panic(e) == [ok |-> FALSE, err |-> e, panic |-> TRUE]

IsPanic(r) == "panic" \in DOMAIN r

(***************************************************************************)
(* Bounds of the model: the sample configuration and the request sizes.    *)
(***************************************************************************)
\* CloudProverConfig.retry_count of the sample configuration.
retry_count == 1

\* CloudProverConfig.connection_timeout_sec of the sample configuration.
connection_timeout_sec == 1

\* CloudProverConfig.retry_wait_time_sec of the sample configuration.
retry_wait_time_sec == 1

\* The longest circuit_types list of a GetVkRequest.
MaxKinds == 3

\* The number of call slots (calls in the model's scope at one time).
NumCalls == 2

(***************************************************************************)
(* Program constants.                                                      *)
(***************************************************************************)
THIS_CIRCUIT_VERSION == "v0.13.1"

SINDRI_API_PATH == <<"api", "v1">>

\* http::status::StatusCode::OK
StatusOK == 200

\* http::status::StatusCode::ACCEPTED
StatusAccepted == 202

\* The ticks (half seconds) of one second: Duration::from_secs.
TicksPerSec == 2

(***************************************************************************)
(* base64, as reformat_vk uses it.  A symbol's value is its position in    *)
(* the alphabet; decoding concatenates the 6-bit values and cuts the bits  *)
(* into bytes, encoding cuts the bytes' bits into 6-bit values again.      *)
(***************************************************************************)
Common62 ==
    << "A","B","C","D","E","F","G","H","I","J","K","L","M",
       "N","O","P","Q","R","S","T","U","V","W","X","Y","Z",
       "a","b","c","d","e","f","g","h","i","j","k","l","m",
       "n","o","p","q","r","s","t","u","v","w","x","y","z",
       "0","1","2","3","4","5","6","7","8","9" >>

\* base64::URL_SAFE_NO_PAD: the URL-safe alphabet, no padding on encode.
URL_SAFE_NO_PAD == [alphabet |-> Common62 \o << "-", "_" >>, pad |-> FALSE]

\* base64::STANDARD: the standard alphabet, padding on encode.
STANDARD == [alphabet |-> Common62 \o << "+", "/" >>, pad |-> TRUE]

RECURSIVE Pow(_, _)
Pow(b, n) == IF n = 0 THEN 1 ELSE b * Pow(b, n - 1)

\* The value of symbol ch in the alphabet, or -1 (INVALID_VALUE).
SymbolValue(alphabet, ch) ==
    IF \E i \in 1..Len(alphabet) : alphabet[i] = ch
    THEN (CHOOSE i \in 1..Len(alphabet) : alphabet[i] = ch) - 1
    ELSE -1

\* The number whose base-b digits, most significant first, are ds.
RECURSIVE FromDigits(_, _)
FromDigits(ds, b) ==
    IF ds = <<>> THEN 0
    ELSE FromDigits(SubSeq(ds, 1, Len(ds) - 1), b) * b + ds[Len(ds)]

\* The n base-b digits of v, most significant first.
RECURSIVE ToDigits(_, _, _)
ToDigits(v, b, n) ==
    IF n = 0 THEN <<>>
    ELSE Append(ToDigits(v \div b, b, n - 1), v % b)

\* base64::decode_config: the bytes of the input, or the DecodeError.
\* A symbol outside the alphabet is InvalidByte; one symbol left over after
\* the groups of four is InvalidLength; bits of the last symbol that belong
\* to no byte must be zero (InvalidLastSymbol).
decode_config(input, config) ==
    LET n      == Len(input)
        values == [i \in 1..n |-> SymbolValue(config.alphabet, input[i])]
        spare  == (6 * n) % 8
        bits   == FromDigits(values, 64)
    IN  IF \E i \in 1..n : values[i] = -1
        THEN Err("Invalid byte")
        ELSE IF n % 4 = 1
        THEN Err("Encoded text cannot have a 6-bit remainder.")
        ELSE IF bits % Pow(2, spare) # 0
        THEN Err("Invalid last symbol")
        ELSE Ok(ToDigits(bits \div Pow(2, spare), 256, (6 * n) \div 8))

\* base64::encode_config: the symbols of the bytes, padded with "=" to a
\* multiple of four when the configuration pads.
encode_config(bytes, config) ==
    LET m       == Len(bytes)
        nsym    == (8 * m + 5) \div 6
        fill    == 6 * nsym - 8 * m
        values  == ToDigits(FromDigits(bytes, 256) * Pow(2, fill), 64, nsym)
        symbols == [i \in 1..nsym |-> config.alphabet[values[i] + 1]]
        npad    == IF config.pad THEN (4 - (nsym % 4)) % 4 ELSE 0
    IN  symbols \o [i \in 1..npad |-> "="]

\* Re-encode the vk: decode URL-safe unpadded base64, encode standard padded.
reformat_vk(vk_old) ==
    LET vk == decode_config(vk_old, URL_SAFE_NO_PAD)
    IN  IF vk.ok THEN Ok(encode_config(vk.val, STANDARD)) ELSE Err(vk.err)


(***************************************************************************)
(* The values requests and backend answers are drawn from.                 *)
(***************************************************************************)
\* scroll_proving_sdk CircuitType: a closed set, Undefined included.
CircuitType == {"Undefined", "Chunk", "Batch", "Bundle"}

Versions == {THIS_CIRCUIT_VERSION, "v0.12.0"}

HardForks == {"darwinV2", "curie"}

TaskIds == {"t1", "t2"}

\* Keys as the backend may send them: two that are valid URL-safe unpadded
\* base64, in symbols the two alphabets do not share and of lengths that
\* need one and two padding symbols, and three that are not valid (length,
\* last symbol, symbol).
WireKeys ==
    { <<"_", "A">>, <<"-", "_", "8">>,
      <<"A">>, <<"A", "_">>, <<"+", "A">> }

\* The keys a proof detail may carry: one valid, one not (last symbol).
ProofWireKeys == { <<"_", "A">>, <<"_", "_">> }

\* All sequences over S of length at most n.
RECURSIVE SeqsUpTo(_, _)
SeqsUpTo(S, n) ==
    IF n = 0 THEN {<<>>}
    ELSE LET shorter == SeqsUpTo(S, n - 1)
         IN  shorter \cup {Append(q, x) : q \in shorter, x \in S}

\* The caller's proof input, a JSON text, by its shape: not JSON at all, a
\* JSON object without the batch_proofs member, a bare JSON array, or the
\* envelope {"batch_proofs": items}.  The item "X" is JSON that is no
\* batch proof.
Json(shape, items) == [shape |-> shape, items |-> items]

ProofItemLists == { <<>>, <<"A">>, <<"A", "B">>, <<"B", "A">>, <<"A", "X">> }

Inputs ==
    { Json("malformed", <<>>), Json("object", <<>>), Json("array", <<"A", "B">>) }
    \cup { Json("envelope", items) : items \in ProofItemLists }

GetVkRequests ==
    [circuit_version : Versions, circuit_types : SeqsUpTo(CircuitType, MaxKinds)]

ProveRequests ==
    [circuit_type : CircuitType, circuit_version : Versions,
     hard_fork_name : HardForks, input : Inputs]

\* The task IDs a caller may ask for: the backend's, and a string that is
\* no backend ID (QueryTaskRequest::task_id is any String).
RequestedTaskIds == TaskIds \cup {".."}

QueryTaskRequests == [task_id : RequestedTaskIds]

\* The status codes a final response may carry.
Statuses == {101, 200, 202, 203, 404, 429, 500}

\* How one send attempt can end: in a response with a status code, or in
\* an error of the HTTP client.
AttemptOutcomes ==
    [kind : {"response"}, status : Statuses, error : {""}]
    \cup [kind : {"error"}, status : {0}, error : {"timeout", "connect", "redirect"}]

\* A response body as the decoder sees it: text that could not be read,
\* text that is no JSON, or a JSON object with some of the members the
\* adapter's response types name (a missing or null member is None).
Body(text_ok, json, vk, id, status, date, error, proof, compute, queue) ==
    [text_ok |-> text_ok, json |-> json, verification_key |-> vk,
     proof_id |-> id, status |-> status, date_created |-> date,
     error |-> error, proof |-> proof,
     compute_time_sec |-> compute, queue_time_sec |-> queue]

UnreadableBody == Body(FALSE, FALSE, None, None, None, None, None, None, None, None)

MalformedBody == Body(TRUE, FALSE, None, None, None, None, None, None, None, None)

EmptyObjectBody == Body(TRUE, TRUE, None, None, None, None, None, None, None, None)

\* A proof value (serde_json::Value) nested 100,000 arrays deep.
NestedProof == "[[[[[[...]]]]]]"

\* A proof detail whose proof member is nested deep.
NestedProofBody ==
    Body(TRUE, TRUE, None, Some("t1"), Some("Ready"), Some("2024-01-01T00:00:00Z"),
         None, Some(NestedProof), None, None)

\* A document that is itself an array nested deep: no object of the
\* response type.
NestedArrayBody == MalformedBody @@ [nested |-> TRUE]

WireStatuses == {"Queued", "In Progress", "Ready", "Failed", "Cancelled"}

WireTimes == { <<None, None>>, <<None, Some(3)>>, <<Some(5), Some(3)>> }

CircuitBodies ==
    { UnreadableBody, MalformedBody, EmptyObjectBody, NestedArrayBody }
    \cup { Body(TRUE, TRUE, Some(k), None, None, None, None, None, None, None) :
             k \in WireKeys }

ProofBodies ==
    { UnreadableBody, MalformedBody, EmptyObjectBody, NestedArrayBody, NestedProofBody }
    \cup { Body(TRUE, TRUE, vk, Some(id), Some(st), Some("2024-01-01T00:00:00Z"),
                er, pr, tm[1], tm[2]) :
             vk \in {None} \cup {Some(k) : k \in ProofWireKeys},
             id \in TaskIds, st \in WireStatuses,
             er \in {None, Some("proof generation failed")},
             pr \in {None, Some("{\"proof\":\"0x01\"}")},
             tm \in WireTimes }

(***************************************************************************)
(* Decoding and mapping.                                                   *)
(***************************************************************************)
\* #[derive(Deserialize)] SindriTaskStatus: the variant a status text names.
SindriTaskStatus_deserialize(text) ==
    CASE text = "Queued"      -> Ok("SindriTaskStatus::Queued")
      [] text = "In Progress" -> Ok("SindriTaskStatus::Proving")
      [] text = "Ready"       -> Ok("SindriTaskStatus::Success")
      [] text = "Failed"      -> Ok("SindriTaskStatus::Failed")
      [] OTHER                -> Err("unknown variant")

\* A plausible slip: a catch-all arm takes the place of an explicit one.
TaskStatus_from_default(status) ==
    CASE status = "SindriTaskStatus::Success" -> "Success"
      [] status = "SindriTaskStatus::Failed"  -> "Failed"
      [] OTHER                                -> "Queued"

\* impl From<SindriTaskStatus> for TaskStatus.
TaskStatus_from(status) ==
    CASE status = "SindriTaskStatus::Queued"  -> "Queued"
      [] status = "SindriTaskStatus::Proving" -> "Proving"
      [] status = "SindriTaskStatus::Success" -> "Success"
      [] status = "SindriTaskStatus::Failed"  -> "Failed"

\* The decoding at the end of request_with_token, for Resp =
\* SindriCircuitInfoResponse: verification_key is a required member.
deserialize_SindriCircuitInfoResponse(body) ==
    IF ~body.json THEN Err("expected value at line 1 column 1")
    ELSE IF body.verification_key = None THEN Err("missing field verification_key")
    ELSE Ok([verification_key |-> [verification_key |-> body.verification_key[1]]])

\* The decoding at the end of request_with_token, for Resp =
\* SindriProofInfoResponse: date_created, proof_id and status are required,
\* the Option members are None when missing.
deserialize_SindriProofInfoResponse(body) ==
    IF ~body.json THEN Err("expected value at line 1 column 1")
    ELSE IF body.date_created = None THEN Err("missing field date_created")
    ELSE IF body.proof_id = None THEN Err("missing field proof_id")
    ELSE IF body.status = None THEN Err("missing field status")
    ELSE IF ~SindriTaskStatus_deserialize(body.status[1]).ok THEN Err("unknown variant")
    ELSE Ok([compute_time_sec |-> body.compute_time_sec,
             date_created     |-> body.date_created[1],
             error            |-> body.error,
             proof_id         |-> body.proof_id[1],
             proof            |-> body.proof,
             queue_time_sec   |-> body.queue_time_sec,
             status           |-> SindriTaskStatus_deserialize(body.status[1]).val,
             verification_key |->
                 IF body.verification_key = None THEN None
                 ELSE Some([verification_key |-> body.verification_key[1]])])

\* crate::utils::proving_timestamps_from_response: the creation time read
\* from date_created, the start time when the queue time is known, the
\* finish time when the compute time is known too.
proving_timestamps_from_response(resp) ==
    LET created_at  == IF resp.date_created = "2024-01-01T00:00:00Z"
                       THEN 1704067200 ELSE 0
        started_at  == IF resp.queue_time_sec = None THEN None
                       ELSE Some(created_at + resp.queue_time_sec[1])
        finished_at == IF started_at = None \/ resp.compute_time_sec = None THEN None
                       ELSE Some(started_at[1] + resp.compute_time_sec[1])
    IN  <<created_at, started_at, finished_at>>

\* A plausible slip: resp.proof.map(...), an absent proof stays absent.
proof_to_string_absent(proof) == IF proof = None THEN None ELSE Some(proof[1])

\* serde_json::to_string(&resp.proof).ok(): None serializes as null.
proof_to_string(proof) == Some(IF proof = None THEN "null" ELSE proof[1])

(***************************************************************************)
(* Route construction.                                                     *)
(***************************************************************************)
MethodClass_Circuit(circuit_type) ==
    [class |-> "Circuit", circuit_type |-> circuit_type, id |-> ""]

MethodClass_Proof(id) == [class |-> "Proof", circuit_type |-> "Undefined", id |-> id]

\* Url::join of a relative reference onto a base whose path ends in "/":
\* the segments are appended, "." is dropped and ".." removes a segment.
RECURSIVE url_join(_, _)
url_join(base, rel) ==
    IF rel = <<>> THEN base
    ELSE IF Head(rel) = "." THEN url_join(base, Tail(rel))
    ELSE IF Head(rel) = ".."
    THEN url_join(IF base = <<>> THEN base ELSE SubSeq(base, 1, Len(base) - 1), Tail(rel))
    ELSE url_join(Append(base, Head(rel)), Tail(rel))

\* CloudProver::build_url: the URL, or the panic of unreachable!().
build_url(self, method_class, method, query_params) ==
    IF method_class.class = "Circuit" /\ method_class.circuit_type = "Undefined"
    THEN Panic("internal error: entered unreachable code: circuit type is undefined")
    ELSE LET method_base ==
                 IF method_class.class = "Circuit"
                 THEN LET circuit ==
                              CASE method_class.circuit_type = "Chunk"  -> "chunk_prover"
                                [] method_class.circuit_type = "Batch"  -> "batch_prover"
                                [] method_class.circuit_type = "Bundle" -> "bundle_prover"
                      IN  <<"circuit", "scroll-tech", circuit \o ":" \o THIS_CIRCUIT_VERSION>>
                 ELSE <<"proof", method_class.id>>
         IN  Ok([origin |-> self.base_url.origin,
                 path   |-> url_join(url_join(self.base_url.path, method_base), <<method>>),
                 query  |-> query_params])

(***************************************************************************)
(* The retry middleware of CloudProver::new.                               *)
(***************************************************************************)
\* A plausible slip: every failure is retried, a 4xx answer too.
Retryable_every_failure(outcome) ==
    IF outcome.kind = "error" THEN "Transient"
    ELSE IF outcome.status >= 200 /\ outcome.status < 300 THEN "Success"
    ELSE "Transient"

\* RetryTransientMiddleware's classification of an attempt's outcome:
\* server errors, 408 and 429, connect errors and timeouts are transient.
Retryable(outcome) ==
    IF outcome.kind = "error"
    THEN IF outcome.error \in {"timeout", "connect"} THEN "Transient" ELSE "Fatal"
    ELSE IF outcome.status >= 500 /\ outcome.status < 600 THEN "Transient"
    ELSE IF outcome.status >= 400 /\ outcome.status < 500
            /\ outcome.status \notin {408, 429} THEN "Fatal"
    ELSE IF outcome.status >= 200 /\ outcome.status < 300 THEN "Success"
    ELSE IF outcome.status \in {408, 429} THEN "Transient"
    ELSE "Fatal"

\* A plausible slip: the retry budget is never consulted.
should_retry_unbounded(self, n_past_retries) == n_past_retries <= self.retry_count

\* ExponentialBackoff::build_with_max_retries(cfg.retry_count): another
\* attempt is due while fewer than max_n_retries retries were made.
should_retry(self, n_past_retries) == n_past_retries < self.retry_count

\* retry_bounds(retry_wait_duration / 2, retry_wait_duration), in ticks:
\* the shortest and the longest wait the policy can ask for.
RetryDelays(self) ==
    { (self.retry_wait_time_sec * TicksPerSec) \div 2,
      self.retry_wait_time_sec * TicksPerSec }

\* How long an attempt of a request can take: its timeout fires at
\* .timeout(self.send_timeout) exactly, every other outcome arrives before
\* (at once, or as late as can be).
AttemptTicks(request, outcome) ==
    IF outcome.kind = "error" /\ outcome.error = "timeout"
    THEN {request.timeout}
    ELSE {0, request.timeout}

(***************************************************************************)
(* The state.  adapter is the CloudProver that CloudProver::new built;     *)
(* frame[c] is the state of call c: where it stands (pc), its request and  *)
(* locals, the HTTP call in flight, and the response once it returned.     *)
(* asked, ncalls, nbodies, call_result, wire and timeouts_only record what *)
(* happened in the call (the kinds asked for, the HTTP calls begun, the    *)
(* bodies read, how the last HTTP call ended, the keys the backend sent,   *)
(* whether every attempt so far timed out); routed is the target the last  *)
(* route was built for, answers the results of the call's HTTP calls in    *)
(* order, and started the request as the caller passed it (recorded by the *)
(* calls of SpecConcurrent); the code does not read them.                  *)
(***************************************************************************)
Calls == 1..NumCalls

\* CloudProver::new on the sample configuration.
CloudProver_new ==
    [base_url            |-> [origin |-> "https://sindri.app", path |-> SINDRI_API_PATH],
     api_key             |-> "secret",
     send_timeout        |-> connection_timeout_sec * TicksPerSec,
     retry_count         |-> retry_count,
     retry_wait_time_sec |-> retry_wait_time_sec]

NoRequest == [verb |-> "", url |-> None, body |-> None, timeout |-> 0, bearer |-> ""]

NoOutcome == [kind |-> "", status |-> 0, error |-> ""]

IdleFrame ==
    [pc            |-> "idle",
     op            |-> "",
     req           |-> None,
     vks           |-> <<>>,
     http          |-> NoRequest,
     retries       |-> 0,
     elapsed       |-> 0,
     sent          |-> NoOutcome,
     resp          |-> None,
     asked         |-> 0,
     ncalls        |-> 0,
     nbodies       |-> 0,
     call_result   |-> "",
     wire          |-> <<>>,
     timeouts_only |-> TRUE,
     routed        |-> None,
     answers       |-> <<>>,
     started       |-> None]

\* The call returns resp to its caller; nothing of the HTTP call is kept.
Returned(f, resp) ==
    [f EXCEPT !.pc = "done", !.resp = Some(resp), !.http = NoRequest,
              !.retries = 0, !.elapsed = 0, !.sent = NoOutcome,
              !.timeouts_only = TRUE]

\* request_with_token up to resp_builder.send(): the URL is built (or
\* build_url panics), the request gets its timeout and bearer token, and
\* the first attempt is due.
request_with_token(self, f, method_class, method, query_params, request_body) ==
    LET url == build_url(self, method_class, method, query_params)
    IN  IF IsPanic(url)
        THEN [f EXCEPT !.pc = "panicked", !.routed = Some(method_class)]
        ELSE [f EXCEPT !.pc = "send",
                       !.routed = Some(method_class),
                       !.http = [verb    |-> IF request_body = None THEN "GET" ELSE "POST",
                                 url     |-> Some(url.val),
                                 body    |-> request_body,
                                 timeout |-> self.send_timeout,
                                 bearer  |-> self.api_key],
                       !.retries = 0, !.elapsed = 0, !.sent = NoOutcome,
                       !.timeouts_only = TRUE,
                       !.ncalls = @ + 1]

post_with_token(self, f, method_class, method, req) ==
    request_with_token(self, f, method_class, method, None, Some(req))

get_with_token(self, f, method_class, method, query_params) ==
    request_with_token(self, f, method_class, method, query_params, None)

\* A plausible slip: every 2xx status is accepted.
status_accepted_any_2xx(status) == status >= StatusOK /\ status < 300

\* status >= StatusCode::OK && status <= StatusCode::ACCEPTED
status_accepted(status) == status >= StatusOK /\ status <= StatusAccepted

status_not_ok(method, status) ==
    "[Sindri client], " \o method \o ", status not ok: " \o ToString(status)

(***************************************************************************)
(* get_vks                                                                 *)
(***************************************************************************)
\* The for loop of get_vks at its head: the next circuit type is taken
\* from the list and its "detail" call begins, or the list is exhausted.
get_vks_loop(self, f) ==
    IF f.req.circuit_types = <<>>
    THEN Returned(f, [vks |-> f.vks, error |-> None])
    ELSE get_with_token(self,
                        [f EXCEPT !.req.circuit_types = Tail(@)],
                        MethodClass_Circuit(Head(f.req.circuit_types)),
                        "detail", None)

\* A plausible slip: a failure returns no keys at all.
get_vks_resume_dropping(self, f, result) ==
    IF ~result.ok
    THEN Returned(f, [vks |-> <<>>, error |-> Some(result.err)])
    ELSE LET wire == result.val.verification_key.verification_key
             vk   == reformat_vk(wire)
         IN  IF ~vk.ok
             THEN Returned(f, [vks |-> <<>>, error |-> Some(vk.err)])
             ELSE get_vks_loop(self,
                      [f EXCEPT !.vks  = IF \E i \in 1..Len(@) : @[i] = vk.val
                                         THEN @ ELSE Append(@, vk.val),
                                !.wire = Append(@, wire)])

\* A plausible slip: every key is pushed, whether the set holds it or not.
get_vks_resume_appending(self, f, result) ==
    IF ~result.ok
    THEN Returned(f, [vks |-> f.vks, error |-> Some(result.err)])
    ELSE LET wire == result.val.verification_key.verification_key
             vk   == reformat_vk(wire)
         IN  IF ~vk.ok
             THEN Returned(f, [vks |-> f.vks, error |-> Some(vk.err)])
             ELSE get_vks_loop(self,
                      [f EXCEPT !.vks  = Append(@, vk.val),
                                !.wire = Append(@, wire)])

\* The match on the result of one "detail" call in get_vks.
get_vks_resume(self, f, result) ==
    IF ~result.ok
    THEN Returned(f, [vks |-> f.vks, error |-> Some(result.err)])
    ELSE LET wire == result.val.verification_key.verification_key
             vk   == reformat_vk(wire)
         IN  IF ~vk.ok
             THEN Returned(f, [vks |-> f.vks, error |-> Some(vk.err)])
             ELSE get_vks_loop(self,
                      [f EXCEPT !.vks  = IF \E i \in 1..Len(@) : @[i] = vk.val
                                         THEN @ ELSE Append(@, vk.val),
                                !.wire = Append(@, wire)])

\* A plausible slip: the version is not checked.
version_matches_always(circuit_version) == TRUE

\* req.circuit_version != THIS_CIRCUIT_VERSION, negated.
version_matches(circuit_version) == circuit_version = THIS_CIRCUIT_VERSION

\* get_vks from its entry to its first await (or its return).
get_vks_begin(self, f, req) ==
    LET f0 == [f EXCEPT !.op = "get_vks", !.req = req,
                        !.asked = Len(req.circuit_types)]
    IN  IF ~version_matches(req.circuit_version)
        THEN Returned(f0, [vks |-> <<>>, error |-> Some("circuit version mismatch")])
        ELSE get_vks_loop(self, f0)

(***************************************************************************)
(* prove                                                                   *)
(***************************************************************************)
\* A plausible slip: the failure response reports the backend's view.
build_prove_error_response_queued(req, error_msg) ==
    [task_id          |-> "",
     circuit_type     |-> req.circuit_type,
     circuit_version  |-> req.circuit_version,
     hard_fork_name   |-> req.hard_fork_name,
     status           |-> "Queued",
     created_at       |-> 0,
     started_at       |-> None,
     finished_at      |-> None,
     compute_time_sec |-> None,
     input            |-> Some(req.input),
     proof            |-> None,
     vk               |-> None,
     error            |-> Some(error_msg)]

build_prove_error_response(req, error_msg) ==
    [task_id          |-> "",
     circuit_type     |-> req.circuit_type,
     circuit_version  |-> req.circuit_version,
     hard_fork_name   |-> req.hard_fork_name,
     status           |-> "Failed",
     created_at       |-> 0,
     started_at       |-> None,
     finished_at      |-> None,
     compute_time_sec |-> None,
     input            |-> Some(req.input),
     proof            |-> None,
     vk               |-> None,
     error            |-> Some(error_msg)]

\* serde_json::from_str::<BundleProvingTask>(&req.input): the batch proofs
\* of the envelope, when the input is an envelope of batch proofs.
BundleProvingTask_from_str(input) ==
    IF input.shape = "malformed" THEN Err("expected value at line 1 column 1")
    ELSE IF input.shape = "array" THEN Err("invalid type: sequence, expected struct")
    ELSE IF input.shape = "object" THEN Err("missing field batch_proofs")
    ELSE IF \E i \in 1..Len(input.items) : input.items[i] = "X"
    THEN Err("invalid type: expected struct BatchProof")
    ELSE Ok([batch_proofs |-> input.items])

\* A plausible slip: the input is passed on for every circuit type.
reprocess_prove_input_passthrough(req) == Ok(req.input)

\* A plausible slip: the envelope is removed whatever the circuit type.
reprocess_prove_input_any_kind(req) ==
    LET bundle_task_detail == BundleProvingTask_from_str(req.input)
    IN  IF bundle_task_detail.ok
        THEN Ok(Json("array", bundle_task_detail.val.batch_proofs))
        ELSE Err(bundle_task_detail.err)

\* Remove the "batch_proofs" layer of a Bundle input.
reprocess_prove_input(req) ==
    IF req.circuit_type = "Bundle"
    THEN LET bundle_task_detail == BundleProvingTask_from_str(req.input)
         IN  IF bundle_task_detail.ok
             THEN Ok(Json("array", bundle_task_detail.val.batch_proofs))
             ELSE Err(bundle_task_detail.err)
    ELSE Ok(req.input)

\* prove from its entry to its first await (or its return).
prove_begin(self, f, req) ==
    LET f0 == [f EXCEPT !.op = "prove", !.req = req]
    IN  IF ~version_matches(req.circuit_version)
        THEN Returned(f0, build_prove_error_response(req, "circuit version mismatch"))
        ELSE LET input == reprocess_prove_input(req)
             IN  IF ~input.ok
                 THEN Returned(f0, build_prove_error_response(req, input.err))
                 ELSE post_with_token(self, f0,
                          MethodClass_Circuit(req.circuit_type), "prove",
                          [proof_input |-> input.val, perform_verify |-> TRUE])

\* A plausible slip: an error the backend reports for the task turns the
\* call into the failure response.
prove_resume_failing_on_error(self, f, result) ==
    IF result.ok /\ result.val.error = None
    THEN LET resp  == result.val
             times == proving_timestamps_from_response(resp)
         IN  Returned([f EXCEPT !.wire = IF resp.verification_key = None THEN @
                                         ELSE Append(@, resp.verification_key[1].verification_key)],
                 [task_id          |-> resp.proof_id,
                  circuit_type     |-> f.req.circuit_type,
                  circuit_version  |-> f.req.circuit_version,
                  hard_fork_name   |-> f.req.hard_fork_name,
                  status           |-> TaskStatus_from(resp.status),
                  created_at       |-> times[1],
                  started_at       |-> times[2],
                  finished_at      |-> times[3],
                  compute_time_sec |-> resp.compute_time_sec,
                  input            |-> Some(f.req.input),
                  proof            |-> proof_to_string(resp.proof),
                  vk               |-> IF resp.verification_key = None THEN None
                                       ELSE Some(resp.verification_key[1].verification_key),
                  error            |-> resp.error])
    ELSE Returned(f, build_prove_error_response(f.req,
                        "Failed to request proof: "
                        \o (IF result.ok THEN result.val.error[1] ELSE result.err)))

\* The match on the result of the "prove" call.
prove_resume(self, f, result) ==
    IF result.ok
    THEN LET resp  == result.val
             times == proving_timestamps_from_response(resp)
         IN  Returned([f EXCEPT !.wire = IF resp.verification_key = None THEN @
                                         ELSE Append(@, resp.verification_key[1].verification_key)],
                 [task_id          |-> resp.proof_id,
                  circuit_type     |-> f.req.circuit_type,
                  circuit_version  |-> f.req.circuit_version,
                  hard_fork_name   |-> f.req.hard_fork_name,
                  status           |-> TaskStatus_from(resp.status),
                  created_at       |-> times[1],
                  started_at       |-> times[2],
                  finished_at      |-> times[3],
                  compute_time_sec |-> resp.compute_time_sec,
                  input            |-> Some(f.req.input),
                  proof            |-> proof_to_string(resp.proof),
                  vk               |-> IF resp.verification_key = None THEN None
                                       ELSE Some(resp.verification_key[1].verification_key),
                  error            |-> resp.error])
    ELSE Returned(f, build_prove_error_response(f.req,
                        "Failed to request proof: " \o result.err))

(***************************************************************************)
(* query_task                                                              *)
(***************************************************************************)
QueryParams ==
    { <<"include_proof", "true">>, <<"include_public", "true">>,
      <<"include_verification_key", "true">> }

\* query_task from its entry to its first await.
query_task_begin(self, f, req) ==
    get_with_token(self, [f EXCEPT !.op = "query_task", !.req = req],
                   MethodClass_Proof(req.task_id), "detail", Some(QueryParams))

\* A plausible slip: the failure response takes the status of prove's.
query_task_failed_as_failed(req, error_msg) ==
    [task_id          |-> req.task_id,
     circuit_type     |-> "Undefined",
     circuit_version  |-> "",
     hard_fork_name   |-> "",
     status           |-> "Failed",
     created_at       |-> 0,
     started_at       |-> None,
     finished_at      |-> None,
     compute_time_sec |-> None,
     input            |-> None,
     proof            |-> None,
     vk               |-> None,
     error            |-> Some(error_msg)]

\* The Err arm of query_task.
query_task_failed(req, error_msg) ==
    [task_id          |-> req.task_id,
     circuit_type     |-> "Undefined",
     circuit_version  |-> "",
     hard_fork_name   |-> "",
     status           |-> "Queued",
     created_at       |-> 0,
     started_at       |-> None,
     finished_at      |-> None,
     compute_time_sec |-> None,
     input            |-> None,
     proof            |-> None,
     vk               |-> None,
     error            |-> Some(error_msg)]

\* The match on the result of the "detail" call of query_task.
query_task_resume(self, f, result) ==
    IF result.ok
    THEN LET resp  == result.val
             times == proving_timestamps_from_response(resp)
         IN  Returned([f EXCEPT !.wire = IF resp.verification_key = None THEN @
                                         ELSE Append(@, resp.verification_key[1].verification_key)],
                 [task_id          |-> resp.proof_id,
                  circuit_type     |-> "Undefined",
                  circuit_version  |-> "",
                  hard_fork_name   |-> "",
                  status           |-> TaskStatus_from(resp.status),
                  created_at       |-> times[1],
                  started_at       |-> times[2],
                  finished_at      |-> times[3],
                  compute_time_sec |-> resp.compute_time_sec,
                  input            |-> None,
                  proof            |-> proof_to_string(resp.proof),
                  vk               |-> IF resp.verification_key = None THEN None
                                       ELSE Some(resp.verification_key[1].verification_key),
                  error            |-> resp.error])
    ELSE Returned(f, query_task_failed(f.req, "Failed to query proof: " \o result.err))

(***************************************************************************)
(* The actions.                                                            *)
(***************************************************************************)
Init ==
    /\ adapter = CloudProver_new
    /\ frame = [c \in Calls |-> IdleFrame]

\* Calls share nothing but the read-only adapter; this specification runs
\* them one at a time, each in the lowest call slot.
CanStart(c) ==
    /\ \A d \in Calls : frame[d].pc = "idle"
    /\ \A d \in Calls : d >= c

\* A caller invokes get_vks(req).
get_vks(c, req) ==
    /\ CanStart(c)
    /\ frame' = [frame EXCEPT ![c] = get_vks_begin(adapter, IdleFrame, req)]
    /\ UNCHANGED adapter

\* A caller invokes prove(req).
prove(c, req) ==
    /\ CanStart(c)
    /\ frame' = [frame EXCEPT ![c] = prove_begin(adapter, IdleFrame, req)]
    /\ UNCHANGED adapter

\* A caller invokes query_task(req).
query_task(c, req) ==
    /\ CanStart(c)
    /\ frame' = [frame EXCEPT ![c] = query_task_begin(adapter, IdleFrame, req)]
    /\ UNCHANGED adapter

\* Whether the middleware sends again after an attempt that ended in outcome.
retries_after(self, f, outcome) ==
    Retryable(outcome) = "Transient" /\ should_retry(self, f.retries)

\* One attempt of the HTTP call ends in a transient failure, one of
\* outcomes, and the retry policy grants another attempt: the middleware
\* waits.
attempt_retried_with(c, outcomes) ==
    /\ frame[c].pc = "send"
    /\ \E outcome \in outcomes :
         /\ retries_after(adapter, frame[c], outcome)
         /\ \E d \in AttemptTicks(frame[c].http, outcome) :
              frame' = [frame EXCEPT ![c] =
                          [@ EXCEPT !.pc = "backoff",
                                    !.sent = outcome,
                                    !.retries = @ + 1,
                                    !.elapsed = @ + d,
                                    !.timeouts_only = @ /\ outcome.error = "timeout"]]
    /\ UNCHANGED adapter

attempt_retried(c) == attempt_retried_with(c, AttemptOutcomes)

\* The backoff ends and the next attempt is sent.
backoff(c) ==
    /\ frame[c].pc = "backoff"
    /\ \E delay \in RetryDelays(adapter) :
         frame' = [frame EXCEPT ![c] =
                     [@ EXCEPT !.pc = "send", !.elapsed = @ + delay]]
    /\ UNCHANGED adapter

\* One attempt ends in one of outcomes and the middleware does not send
\* again: send() returns the outcome of this attempt.
attempt_final_with(c, outcomes) ==
    /\ frame[c].pc = "send"
    /\ \E outcome \in outcomes :
         /\ ~retries_after(adapter, frame[c], outcome)
         /\ \E d \in AttemptTicks(frame[c].http, outcome) :
              frame' = [frame EXCEPT ![c] =
                          [@ EXCEPT !.pc = "responded",
                                    !.sent = outcome,
                                    !.elapsed = @ + d,
                                    !.timeouts_only = @ /\ outcome.error = "timeout"]]
    /\ UNCHANGED adapter

attempt_final(c) == attempt_final_with(c, AttemptOutcomes)

\* The operation's match on the result of its HTTP call.
resume(self, f, result) ==
    LET g == [f EXCEPT !.call_result = IF result.ok THEN "ok" ELSE "err",
                       !.answers = Append(@, result)]
    IN  CASE f.op = "get_vks"    -> get_vks_resume(self, g, result)
          [] f.op = "prove"      -> prove_resume(self, g, result)
          [] f.op = "query_task" -> query_task_resume(self, g, result)

\* request_with_token after send(): the send failed, or the status is not
\* accepted; the body is not read.
response_rejected(c) ==
    /\ frame[c].pc = "responded"
    /\ \/ frame[c].sent.kind = "error"
       \/ ~status_accepted(frame[c].sent.status)
    /\ frame' = [frame EXCEPT ![c] =
                   resume(adapter, @,
                          IF @.sent.kind = "error"
                          THEN Err("error sending request: " \o @.sent.error)
                          ELSE Err(status_not_ok(IF @.op = "prove" THEN "prove" ELSE "detail",
                                                 @.sent.status)))]
    /\ UNCHANGED adapter

\* The bodies the backend may answer an operation's call with.
BodiesFor(op) == IF op = "get_vks" THEN CircuitBodies ELSE ProofBodies

\* The typed decoding of request_with_token::<Resp>.  The recursion limit
\* is disabled and serde_stacker grows the stack on the heap: the nesting
\* depth of the body does not enter the result.
deserialize(op, body) ==
    IF ~body.text_ok THEN Err("error decoding response body")
    ELSE IF op = "get_vks" THEN deserialize_SindriCircuitInfoResponse(body)
    ELSE deserialize_SindriProofInfoResponse(body)

\* request_with_token after send(): the status is accepted, the body (one
\* of bodies) is read and decoded.
response_decoded_with(c, bodies) ==
    /\ frame[c].pc = "responded"
    /\ frame[c].sent.kind = "response"
    /\ status_accepted(frame[c].sent.status)
    /\ \E body \in bodies :
         frame' = [frame EXCEPT ![c] =
                     resume(adapter, [@ EXCEPT !.nbodies = @ + 1],
                            deserialize(@.op, body))]
    /\ UNCHANGED adapter

response_decoded(c) == response_decoded_with(c, BodiesFor(frame[c].op))

\* The Ok arm of prove or query_task holds a decoded proof value nested
\* deep: serde_json::to_string(&resp.proof), and the drop of the value,
\* recurse once per level on the thread's own stack, and whether it
\* suffices is the build's and the runtime's choice.  Here it does not
\* (response_decoded is the step where it does): the process aborts.
stack_overflow(c) ==
    /\ frame[c].pc = "responded"
    /\ frame[c].sent.kind = "response"
    /\ status_accepted(frame[c].sent.status)
    /\ frame[c].op \in {"prove", "query_task"}
    /\ \E body \in BodiesFor(frame[c].op) :
         LET result == deserialize(frame[c].op, body)
         IN  /\ result.ok
             /\ result.val.proof = Some(NestedProof)
             /\ frame' = [frame EXCEPT ![c] =
                            [@ EXCEPT !.pc = "aborted",
                                      !.nbodies = @ + 1,
                                      !.answers = Append(@, result)]]
    /\ UNCHANGED adapter

\* A plausible slip: the key buffer outlives the call that filled it.
drop_keeping(c) ==
    /\ frame[c].pc \in {"done", "panicked"}
    /\ frame' = [frame EXCEPT ![c] = [IdleFrame EXCEPT !.vks = frame[c].vks]]
    /\ UNCHANGED adapter

\* The caller has its response (or the panic has unwound): the call's
\* state is dropped.
drop(c) ==
    /\ frame[c].pc \in {"done", "panicked"}
    /\ frame' = [frame EXCEPT ![c] = IdleFrame]
    /\ UNCHANGED adapter

\* The requests of S a caller can pass in call slot c now.
Startable(c, S) == IF CanStart(c) THEN S ELSE {}

Next ==
    \E c \in Calls :
        \/ \E req \in Startable(c, GetVkRequests) : get_vks(c, req)
        \/ \E req \in Startable(c, ProveRequests) : prove(c, req)
        \/ \E req \in Startable(c, QueryTaskRequests) : query_task(c, req)
        \/ attempt_retried(c)
        \/ backoff(c)
        \/ attempt_final(c)
        \/ response_rejected(c)
        \/ response_decoded(c)
        \/ stack_overflow(c)
        \/ drop(c)

Spec == Init /\ [][Next]_vars

(***************************************************************************)
(* Concurrent calls.  The operations take &self and are async: any number  *)
(* of calls may be in flight on one CloudProver, and their steps           *)
(* interleave at the awaits.  SpecConcurrent runs up to NumCalls calls at  *)
(* once, on a sample of requests and backend answers; every attempt is     *)
(* answered at once and every wait is the shortest (the time a call takes  *)
(* does not enter its response).                                           *)
(***************************************************************************)
\* The calls the callers of SpecConcurrent make.
ConcurrentCalls ==
    { [op  |-> "get_vks",
       req |-> [circuit_version |-> THIS_CIRCUIT_VERSION,
                circuit_types   |-> <<"Chunk", "Batch">>]],
      [op  |-> "prove",
       req |-> [circuit_type |-> "Bundle", circuit_version |-> THIS_CIRCUIT_VERSION,
                hard_fork_name |-> "darwinV2",
                input |-> Json("envelope", <<"A", "B">>)]],
      [op  |-> "query_task", req |-> [task_id |-> "t1"]] }

\* The outcomes of an attempt in SpecConcurrent: 200 and 500.
ConcurrentOutcomes ==
    { o \in AttemptOutcomes : o.kind = "response" /\ o.status \in {StatusOK, 500} }

\* The bodies the backend answers with in SpecConcurrent.
ConcurrentBodies(op) ==
    IF op = "get_vks"
    THEN { MalformedBody,
           Body(TRUE, TRUE, Some(<<"_", "A">>), None, None, None, None, None, None, None) }
    ELSE { MalformedBody,
           Body(TRUE, TRUE, Some(<<"_", "A">>), Some("t1"), Some("Ready"),
                Some("2024-01-01T00:00:00Z"), None, Some("{\"proof\":\"0x01\"}"),
                Some(5), Some(3)) }

\* Whether the HTTP call of frame f took the least time it can take.
Sampled(f) == \A wait \in RetryDelays(adapter) : f.elapsed <= f.retries * wait

\* The entry of operation call.op.
begin(self, f, call) ==
    CASE call.op = "get_vks"    -> get_vks_begin(self, f, call.req)
      [] call.op = "prove"      -> prove_begin(self, f, call.req)
      [] call.op = "query_task" -> query_task_begin(self, f, call.req)

\* A call may begin whenever a slot is free (the lowest free slot is taken).
CanStartConcurrently(c) ==
    /\ frame[c].pc = "idle"
    /\ \A d \in Calls : d < c => frame[d].pc # "idle"

\* A caller invokes an operation while other calls may be in flight.
invoke(c, call) ==
    /\ CanStartConcurrently(c)
    /\ frame' = [frame EXCEPT ![c] =
                   begin(adapter, [IdleFrame EXCEPT !.started = Some(call)], call)]
    /\ UNCHANGED adapter

\* The steps of call c's HTTP call, as in Spec, on the sampled answers.
concurrent_attempt_retried(c) ==
    attempt_retried_with(c, ConcurrentOutcomes) /\ Sampled(frame'[c])

concurrent_backoff(c) == backoff(c) /\ Sampled(frame'[c])

concurrent_attempt_final(c) ==
    attempt_final_with(c, ConcurrentOutcomes) /\ Sampled(frame'[c])

concurrent_response_decoded(c) ==
    response_decoded_with(c, ConcurrentBodies(frame[c].op))

NextConcurrent ==
    \E c \in Calls :
        \/ \E call \in ConcurrentCalls : invoke(c, call)
        \/ concurrent_attempt_retried(c)
        \/ concurrent_backoff(c)
        \/ concurrent_attempt_final(c)
        \/ response_rejected(c)
        \/ concurrent_response_decoded(c)
        \/ drop(c)

SpecConcurrent == Init /\ [][NextConcurrent]_vars

(***************************************************************************)
(* Properties.                                                             *)
(***************************************************************************)
Done(c) == frame[c].pc = "done"

Response(c) == frame[c].resp[1]

NonEmptyError(error) == error # None /\ error[1] # ""

\* s without its repeated elements, each kept where it first appears.
RECURSIVE Dedup(_)
Dedup(s) ==
    IF s = <<>> THEN <<>>
    ELSE LET front == Dedup(SubSeq(s, 1, Len(s) - 1))
         IN  IF \E i \in 1..Len(front) : front[i] = s[Len(s)]
             THEN front ELSE Append(front, s[Len(s)])

\* The keys of wire, each re-encoded once.
ReencodedOnce(wire) == [i \in 1..Len(wire) |-> reformat_vk(wire[i]).val]

\* C1: every execution of get_vks, prove and query_task, for every request
\* (the Undefined circuit kind included) and every backend outcome, ends in
\* a response returned to the caller and never in a panic.
C1_NoUnhandledFault ==
    \A c \in Calls :
        /\ frame[c].pc # "panicked"
        /\ Done(c) => frame[c].resp # None

\* C2: every verification key an operation returns is the backend's key
\* re-encoded exactly once (the value of one pass of reformat_vk): the keys
\* of get_vks, and the key of a prove or query_task response.
C2_KeysReencodedOnce ==
    \A c \in Calls :
        Done(c) =>
            /\ frame[c].op = "get_vks" =>
                   Response(c).vks = Dedup(ReencodedOnce(frame[c].wire))
            /\ (frame[c].op \in {"prove", "query_task"} /\ Response(c).vk # None) =>
                   /\ reformat_vk(frame[c].wire[1]).ok
                   /\ Response(c).vk[1] = reformat_vk(frame[c].wire[1]).val

\* C3: when a per-kind step of get_vks fails (a "detail" call was made that
\* brought no key), get_vks has stopped at that kind: the calls made are
\* those of the kinds that succeeded and the failing one, the kinds after
\* it are still untaken, and the response holds exactly the de-duplicated
\* re-encoded keys of the kinds before it, with a non-empty error.
C3_PartialSuccess ==
    \A c \in Calls :
        (/\ Done(c)
         /\ frame[c].op = "get_vks"
         /\ frame[c].ncalls > Len(frame[c].wire)) =>
            /\ frame[c].ncalls = Len(frame[c].wire) + 1
            /\ Len(frame[c].req.circuit_types) = frame[c].asked - frame[c].ncalls
            /\ Response(c).vks = Dedup(ReencodedOnce(frame[c].wire))
            /\ NonEmptyError(Response(c).error)

\* C3's case: three kinds were asked for, the second failed, and the one
\* key of the first kind is returned with the error.
C3_Witness ==
    \E c \in Calls :
        /\ Done(c)
        /\ frame[c].op = "get_vks"
        /\ frame[c].asked = 3
        /\ frame[c].ncalls = 2
        /\ Len(frame[c].wire) = 1
        /\ Len(Response(c).vks) = 1
        /\ Response(c).error # None

\* C4: get_vks with a version other than the adapter's never begins a
\* backend call, and returns an empty key set with a non-empty error.
C4_VersionMismatch ==
    \A c \in Calls :
        (/\ frame[c].op = "get_vks"
         /\ frame[c].req.circuit_version # THIS_CIRCUIT_VERSION) =>
            /\ Done(c)
            /\ frame[c].ncalls = 0
            /\ Response(c).vks = <<>>
            /\ NonEmptyError(Response(c).error)

\* C4's case: a mismatched get_vks over three kinds has returned.
C4_Witness ==
    \E c \in Calls :
        /\ Done(c)
        /\ frame[c].op = "get_vks"
        /\ frame[c].req.circuit_version # THIS_CIRCUIT_VERSION
        /\ frame[c].asked = 3
        /\ Response(c).error = Some("circuit version mismatch")

\* Whether prove(req) fails before its backend call: the version does not
\* match, or the Bundle input is no envelope of batch proofs.
ProveFailsEarly(req) ==
    \/ req.circuit_version # THIS_CIRCUIT_VERSION
    \/ req.circuit_type = "Bundle" /\ ~BundleProvingTask_from_str(req.input).ok

\* C5: whenever prove fails (version mismatch, reshape failure, or a
\* backend call that ended in an error), its response has an empty task
\* ID, status Failed, creation time zero, no start or finish time, no
\* proof, no key and a non-empty error, and echoes the request's circuit
\* kind, version and hard-fork name.
C5_ProveFailureShape ==
    \A c \in Calls :
        (/\ Done(c)
         /\ frame[c].op = "prove"
         /\ ProveFailsEarly(frame[c].req) \/ frame[c].call_result = "err") =>
            /\ Response(c).task_id = ""
            /\ Response(c).status = "Failed"
            /\ Response(c).created_at = 0
            /\ Response(c).started_at = None
            /\ Response(c).finished_at = None
            /\ Response(c).proof = None
            /\ Response(c).vk = None
            /\ NonEmptyError(Response(c).error)
            /\ Response(c).circuit_type = frame[c].req.circuit_type
            /\ Response(c).circuit_version = frame[c].req.circuit_version
            /\ Response(c).hard_fork_name = frame[c].req.hard_fork_name

\* C5's case: a prove whose backend answer could not be decoded has
\* returned its failure response.
C5_Witness ==
    \E c \in Calls :
        /\ Done(c)
        /\ frame[c].op = "prove"
        /\ frame[c].call_result = "err"
        /\ frame[c].nbodies = 1
        /\ frame[c].req.hard_fork_name = "curie"
        /\ Response(c).status = "Failed"

\* C6: a prove whose version does not match, or whose Bundle input cannot
\* be reshaped, has returned without beginning any backend call: the
\* "prove" call is begun only after both checks have passed.
C6_ProveChecksFirst ==
    \A c \in Calls :
        (frame[c].op = "prove" /\ ProveFailsEarly(frame[c].req)) =>
            /\ Done(c)
            /\ frame[c].ncalls = 0
            /\ frame[c].http = NoRequest

\* C6's case: a Bundle prove of the adapter's version whose input is no
\* envelope has returned its failure response.
C6_Witness ==
    \E c \in Calls :
        /\ Done(c)
        /\ frame[c].op = "prove"
        /\ frame[c].req.circuit_version = THIS_CIRCUIT_VERSION
        /\ frame[c].req.circuit_type = "Bundle"
        /\ frame[c].req.input.shape = "array"
        /\ frame[c].ncalls = 0
        /\ Response(c).status = "Failed"

\* C7: whenever the backend call of query_task ended in an error, the
\* response carries the requested task ID, status Queued and a non-empty
\* error.
C7_QueryFailureShape ==
    \A c \in Calls :
        (/\ Done(c)
         /\ frame[c].op = "query_task"
         /\ frame[c].call_result = "err") =>
            /\ Response(c).task_id = frame[c].req.task_id
            /\ Response(c).status = "Queued"
            /\ NonEmptyError(Response(c).error)

\* C7's case: the backend answered 500 to the query of task t2.
C7_Witness ==
    \E c \in Calls :
        /\ Done(c)
        /\ frame[c].op = "query_task"
        /\ frame[c].req.task_id = "t2"
        /\ frame[c].call_result = "err"
        /\ Response(c).error =
               Some("Failed to query proof: " \o status_not_ok("detail", 500))

\* The error an operation reports for the error e of its HTTP call.
SurfacedError(f, e) ==
    CASE f.op = "get_vks"    -> e
      [] f.op = "prove"      -> "Failed to request proof: " \o e
      [] f.op = "query_task" -> "Failed to query proof: " \o e

\* Whether the step from f to g ends the HTTP call in the status error.
RejectedForStatus(f, g) ==
    /\ g.pc = "done"
    /\ g.call_result = "err"
    /\ g.nbodies = f.nbodies
    /\ g.resp[1].error =
           Some(SurfacedError(f, status_not_ok(IF f.op = "prove" THEN "prove" ELSE "detail",
                                               f.sent.status)))

\* C8: when send() has returned a response, the next step of the call
\* rejects it for its status (the operation returns its failure, the body
\* is not read) exactly when the status lies outside 200..202.
C8_StatusRange ==
    [][\A c \in Calls :
          (/\ frame[c].pc = "responded"
           /\ frame[c].sent.kind = "response"
           /\ frame'[c] # frame[c]) =>
              IF frame[c].sent.status >= 200 /\ frame[c].sent.status <= 202
              THEN /\ ~RejectedForStatus(frame[c], frame'[c])
                   /\ frame'[c].nbodies = frame[c].nbodies + 1
              ELSE RejectedForStatus(frame[c], frame'[c])]_vars

\* C8's case: a call whose final response had status 203 has returned the
\* status error without reading a body.
C8_Witness ==
    \E c \in Calls :
        /\ Done(c)
        /\ frame[c].op = "get_vks"
        /\ frame[c].nbodies = 0
        /\ Response(c).error = Some(status_not_ok("detail", 203))

\* Whether an attempt's outcome is a transient failure: a connect error,
\* a timeout, or a retryable status code.
TransientFailure(outcome) ==
    \/ outcome.kind = "error" /\ outcome.error \in {"timeout", "connect"}
    \/ outcome.kind = "response"
       /\ \/ outcome.status \in {408, 429}
          \/ outcome.status >= 500 /\ outcome.status < 600

\* C9: within one HTTP call a further attempt (a wait for it, or the
\* attempt itself) follows only an attempt that failed transiently, and at
\* most retry_count retries are made; once the call has ended in an error
\* (a non-transient failure, a rejected status, a decode failure) the
\* operation has returned, and an operation whose version does not match
\* makes no attempt at all.
C9_RetryOnlyTransient ==
    \A c \in Calls :
        /\ frame[c].retries <= retry_count
        /\ (frame[c].pc = "backoff" \/ (frame[c].pc = "send" /\ frame[c].retries > 0)) =>
               TransientFailure(frame[c].sent)
        /\ frame[c].call_result = "err" => Done(c)
        /\ (frame[c].op \in {"get_vks", "prove"}
            /\ frame[c].req.circuit_version # THIS_CIRCUIT_VERSION) =>
               frame[c].pc \notin {"send", "backoff", "responded"}

\* C9's case: the one retry of the call was made after a 500, and the
\* second attempt is due.
C9_Witness ==
    \E c \in Calls :
        /\ frame[c].pc = "send"
        /\ frame[c].retries = retry_count
        /\ frame[c].sent.kind = "response"
        /\ frame[c].sent.status = 500

\* C10 as the specification states it: when every attempt of an HTTP call
\* timed out, the call has made at most retry_count attempts and has taken
\* at most retry_count x timeout.
C10_AsStated ==
    \A c \in Calls :
        (frame[c].pc = "responded" /\ frame[c].timeouts_only) =>
            /\ frame[c].retries + 1 <= retry_count
            /\ frame[c].elapsed <= retry_count * adapter.send_timeout

\* C10, amended: when every attempt of an HTTP call timed out, the call
\* has made at most retry_count + 1 attempts (the first and retry_count
\* retries) and has taken at most (retry_count + 1) x timeout plus
\* retry_count waits of at most retry_wait_time_sec each.
C10_Amended ==
    \A c \in Calls :
        (frame[c].pc = "responded" /\ frame[c].timeouts_only) =>
            /\ frame[c].retries + 1 <= retry_count + 1
            /\ frame[c].elapsed <=
                   (retry_count + 1) * connection_timeout_sec * TicksPerSec
                   + retry_count * retry_wait_time_sec * TicksPerSec

\* C10's case: every attempt timed out, every retry was made and every
\* wait was the longest: the bound is met.
C10_Witness ==
    \E c \in Calls :
        /\ frame[c].pc = "responded"
        /\ frame[c].timeouts_only
        /\ frame[c].sent.error = "timeout"
        /\ frame[c].retries = retry_count
        /\ frame[c].elapsed =
               (retry_count + 1) * connection_timeout_sec * TicksPerSec
               + retry_count * retry_wait_time_sec * TicksPerSec

\* The frame of a call that ran alone, once it was given answers (the
\* results of its HTTP calls, in order) from frame f on.
RECURSIVE Replay(_, _, _)
Replay(self, f, answers) ==
    IF answers = <<>> \/ f.pc # "send" THEN f
    ELSE Replay(self, resume(self, f, Head(answers)), Tail(answers))

\* The response of call run alone on a fresh adapter, given answers.
RunAlone(call, answers) ==
    Replay(CloudProver_new,
           begin(CloudProver_new, IdleFrame, call),
           answers).resp

\* C11: in every interleaving of concurrent get_vks, prove and query_task
\* calls the adapter stays as CloudProver::new built it, a call slot that
\* is idle holds nothing of the calls that used it, and the response of
\* every call is the response the call produces running alone on the same
\* answers to its own requests.
C11_CallsIsolated ==
    /\ adapter = CloudProver_new
    /\ \A c \in Calls :
           /\ frame[c].pc = "idle" => frame[c] = IdleFrame
           /\ (Done(c) /\ frame[c].started # None) =>
                  frame[c].resp = RunAlone(frame[c].started[1], frame[c].answers)

\* C11's case: a get_vks that made both of its calls has returned its key
\* while a prove, begun before it returned, waits for its retry.
C11_Witness ==
    \E c, d \in Calls :
        /\ c # d
        /\ Done(c)
        /\ frame[c].op = "get_vks"
        /\ Len(frame[c].answers) = 2
        /\ Len(Response(c).vks) = 1
        /\ frame[d].op = "prove"
        /\ frame[d].pc = "backoff"

\* C12: whenever a route was built for a circuit (get_vks and prove, for
\* every request a caller can pass), the circuit kind is Chunk, Batch or
\* Bundle and never Undefined.
C12_UndefinedNeverRouted ==
    \A c \in Calls :
        (frame[c].routed # None /\ frame[c].routed[1].class = "Circuit") =>
            frame[c].routed[1].circuit_type \in {"Chunk", "Batch", "Bundle"}

\* Whether prove(req) reaches its backend call: the version matches, the
\* input of a Bundle is an envelope of batch proofs, and a route exists
\* for the kind.
ProveSubmits(req) ==
    /\ ~ProveFailsEarly(req)
    /\ req.circuit_type \in {"Chunk", "Batch", "Bundle"}

\* C13: a prove that passes its checks has begun one "prove" call, and
\* the body of every "prove" call carries perform_verify = true and, as
\* proof_input, the inner array of the envelope (its elements in their
\* order) when the kind is Bundle and the caller's input as it is for
\* every other kind.
C13_ProveSubmission ==
    \A c \in Calls :
        frame[c].op = "prove" =>
            /\ ProveSubmits(frame[c].req) => frame[c].ncalls = 1
            /\ frame[c].http.body # None =>
                   /\ frame[c].http.verb = "POST"
                   /\ frame[c].req.circuit_version = THIS_CIRCUIT_VERSION
                   /\ frame[c].http.body[1].perform_verify = TRUE
                   /\ frame[c].http.body[1].proof_input =
                          IF frame[c].req.circuit_type = "Bundle"
                          THEN [shape |-> "array", items |-> frame[c].req.input.items]
                          ELSE frame[c].req.input
                   /\ frame[c].req.circuit_type = "Bundle" =>
                          frame[c].req.input.shape = "envelope"

\* C13's case: a Bundle prove of the envelope of A and B is sending the
\* array of A and B.
C13_Witness ==
    \E c \in Calls :
        /\ frame[c].op = "prove"
        /\ frame[c].pc = "send"
        /\ frame[c].req.circuit_type = "Bundle"
        /\ frame[c].req.input = [shape |-> "envelope", items |-> <<"A", "B">>]
        /\ frame[c].http.body =
               Some([proof_input    |-> [shape |-> "array", items |-> <<"A", "B">>],
                     perform_verify |-> TRUE])

\* The status the specification states for a backend status text.
StatedStatus(text) ==
    CASE text = "Queued"      -> "Queued"
      [] text = "In Progress" -> "Proving"
      [] text = "Ready"       -> "Success"
      [] text = "Failed"      -> "Failed"

BackendStatuses == {"Queued", "In Progress", "Ready", "Failed"}

\* The answer of the last HTTP call of call c.
LastAnswer(c) == frame[c].answers[Len(frame[c].answers)]

\* Whether call c is a prove or query_task whose backend call succeeded
\* and that has returned.
ReturnedSuccess(c) ==
    /\ Done(c)
    /\ frame[c].op \in {"prove", "query_task"}
    /\ frame[c].call_result = "ok"

\* C14: each of the backend statuses Queued, In Progress, Ready and Failed
\* decodes and maps to Queued, Proving, Success and Failed respectively,
\* no two of them to the same status, a status text outside the four does
\* not decode (there is no default), and the status of every successful
\* prove and query_task response is the mapped status of the backend's.
C14_StatusMapping ==
    /\ \A text \in BackendStatuses :
           /\ SindriTaskStatus_deserialize(text).ok
           /\ TaskStatus_from(SindriTaskStatus_deserialize(text).val) = StatedStatus(text)
    /\ \A s, t \in BackendStatuses :
           s # t => TaskStatus_from(SindriTaskStatus_deserialize(s).val)
                    # TaskStatus_from(SindriTaskStatus_deserialize(t).val)
    /\ \A text \in WireStatuses \ BackendStatuses :
           ~SindriTaskStatus_deserialize(text).ok
    /\ \A c \in Calls :
           ReturnedSuccess(c) =>
               \E text \in BackendStatuses :
                   /\ SindriTaskStatus_deserialize(text).val = LastAnswer(c).val.status
                   /\ Response(c).status = StatedStatus(text)

\* C14's case: a query_task answered In Progress has returned Proving.
C14_Witness ==
    \E c \in Calls :
        /\ ReturnedSuccess(c)
        /\ frame[c].op = "query_task"
        /\ LastAnswer(c).val.status = SindriTaskStatus_deserialize("In Progress").val
        /\ Response(c).status = "Proving"

\* C15: the error of every successful prove and query_task response is
\* the error the backend reported (none when it reported none), whatever
\* the status, and the response is the one built from the backend's
\* answer (its task ID, its proof), not the constructed failure response.
C15_BackendErrorCarried ==
    \A c \in Calls :
        ReturnedSuccess(c) =>
            /\ Response(c).error = LastAnswer(c).val.error
            /\ Response(c).task_id = LastAnswer(c).val.proof_id
            /\ Response(c).task_id # ""
            /\ Response(c).proof # None

\* C15's case: a prove answered 2xx with status Ready and an error has
\* returned Success with that error.
C15_Witness ==
    \E c \in Calls :
        /\ ReturnedSuccess(c)
        /\ frame[c].op = "prove"
        /\ LastAnswer(c).val.error = Some("proof generation failed")
        /\ Response(c).status = "Success"
        /\ Response(c).error = Some("proof generation failed")

\* C16: when every kind of a get_vks of the adapter's version brought a
\* key that re-encodes, the response holds the re-encoded keys in the
\* order of the request with each distinct key once, where it first
\* appears, and no error; and no response of get_vks, full or partial,
\* holds a key twice.
C16_KeysDeduplicated ==
    \A c \in Calls :
        (Done(c) /\ frame[c].op = "get_vks") =>
            /\ (/\ frame[c].req.circuit_version = THIS_CIRCUIT_VERSION
                /\ Len(frame[c].wire) = frame[c].asked) =>
                   /\ Response(c).vks = Dedup(ReencodedOnce(frame[c].wire))
                   /\ Response(c).error = None
            /\ \A i, j \in 1..Len(Response(c).vks) :
                   i # j => Response(c).vks[i] # Response(c).vks[j]

\* C16's case: three kinds brought the keys k1, k2, k1 and the response
\* holds k1 and k2 re-encoded, in this order.
C16_Witness ==
    \E c \in Calls :
        /\ Done(c)
        /\ frame[c].op = "get_vks"
        /\ frame[c].asked = 3
        /\ frame[c].wire = << <<"_", "A">>, <<"-", "_", "8">>, <<"_", "A">> >>
        /\ Response(c).vks = << reformat_vk(<<"_", "A">>).val,
                                reformat_vk(<<"-", "_", "8">>).val >>
        /\ Response(c).error = None

\* The path segment of a circuit kind.
StatedCircuitSegment(circuit_type) ==
    CASE circuit_type = "Chunk"  -> "chunk_prover:v0.13.1"
      [] circuit_type = "Batch"  -> "batch_prover:v0.13.1"
      [] circuit_type = "Bundle" -> "bundle_prover:v0.13.1"
      [] OTHER                   -> "undefined"

\* C17: the URL of every request is the API root followed by
\* circuit/scroll-tech/<kind>_prover:<version>/<method> for a circuit and
\* by proof/<task ID>/<method> for a task, whatever string the task ID
\* is; the URL of query_task carries the three include parameters with
\* value true and the URLs of get_vks and prove carry none.
C17_Routes ==
    \A c \in Calls :
        frame[c].http.url # None =>
            LET url    == frame[c].http.url[1]
                target == frame[c].routed[1]
                method == IF frame[c].op = "prove" THEN "prove" ELSE "detail"
            IN  /\ url.origin = "https://sindri.app"
                /\ target.class = "Circuit" =>
                       /\ url.path = <<"api", "v1", "circuit", "scroll-tech",
                                       StatedCircuitSegment(target.circuit_type), method>>
                       /\ url.query = None
                /\ target.class = "Proof" =>
                       /\ url.path = <<"api", "v1", "proof", target.id, method>>
                       /\ url.query = Some({ <<"include_proof", "true">>,
                                              <<"include_public", "true">>,
                                              <<"include_verification_key", "true">> })

\* C18: no call ends in the abort of the process for the nesting depth
\* of a response body: the decoding of a body nested deep ends in a value
\* or in a decode error, and what the operation does with the value ends
\* in its response.
C18_DepthNeverCrashes ==
    \A c \in Calls : frame[c].pc # "aborted"

\* C19: the proof of every successful prove and query_task response is
\* present: it is the backend's proof value serialized, the text null
\* when the backend reported no proof; the proof of every other prove and
\* query_task response (the constructed failure responses) is absent.
C19_ProofPresent ==
    \A c \in Calls :
        (Done(c) /\ frame[c].op \in {"prove", "query_task"}) =>
            IF frame[c].call_result = "ok"
            THEN Response(c).proof =
                     Some(IF LastAnswer(c).val.proof = None THEN "null"
                          ELSE LastAnswer(c).val.proof[1])
            ELSE Response(c).proof = None

\* C19's case: a query_task whose answer held no proof has returned the
\* proof null.
C19_Witness ==
    \E c \in Calls :
        /\ ReturnedSuccess(c)
        /\ frame[c].op = "query_task"
        /\ LastAnswer(c).val.proof = None
        /\ Response(c).proof = Some("null")

=============================================================================
